---- MODULE Spec2Model ----
(***************************************************************************)
(* A model of the per-connection HTTP session of the web server           *)
(* (src/http/client.cpp): the character-at-a-time request parser, the     *)
(* message-exchange loop of Client::Entrypoint, the request quota, the    *)
(* file-location check and the generated responses.                       *)
(*                                                                         *)
(* Bytes are the integers 0..255; a string of the program is a sequence   *)
(* of bytes.  The bodies and status lines of the generated responses are  *)
(* kept as TLA+ strings, of which only the length is used.                *)
(***************************************************************************)
EXTENDS Integers, Sequences, FiniteSets, TLC

(* ------------------------------------------------------------------ *)
(* Bytes                                                               *)
(* ------------------------------------------------------------------ *)

\* The printable ASCII characters, 0x20 .. 0x7E, in order (the double quote,
\* the backslash and the backtick by name).
Printable ==
   << " ", "!", "DQUOTE", "#", "$", "%", "&", "'", "(", ")", "*", "+", ",", "-", ".", "/",
      "0", "1", "2", "3", "4", "5", "6", "7", "8", "9", ":", ";", "<", "=", ">", "?",
      "@", "A", "B", "C", "D", "E", "F", "G", "H", "I", "J", "K", "L", "M", "N", "O",
      "P", "Q", "R", "S", "T", "U", "V", "W", "X", "Y", "Z", "[", "BACKSLASH", "]", "^", "_",
      "BACKTICK", "a", "b", "c", "d", "e", "f", "g", "h", "i", "j", "k", "l", "m", "n", "o",
      "p", "q", "r", "s", "t", "u", "v", "w", "x", "y", "z", "{", "|", "}", "~" >>

\* The byte of a printable character.
Ord(c) == 31 + (CHOOSE i \in 1..Len(Printable) : Printable[i] = c)

\* The byte string of a tuple of printable characters.
Bytes(t) == [i \in 1..Len(t) |-> Ord(t[i])]

NUL == 0
HT == 9
LF == 10
CR == 13
SP == Ord(" ")
COLON == Ord(":")
QUESTION == Ord("?")
SLASH == Ord("/")
CRLF == <<CR, LF>>

\* std::tolower in the "C" locale.
ToLower(c) == IF c >= Ord("A") /\ c <= Ord("Z") THEN c + 32 ELSE c

Lower(s) == [i \in 1..Len(s) |-> ToLower(s[i])]

\* The C string held by a buffer: its bytes before the first NUL
\* (std::string(const char *), c_str() read by strcasecmp).
RECURSIVE CString(_)
CString(s) ==
   IF s = <<>> \/ Head(s) = NUL THEN <<>> ELSE <<Head(s)>> \o CString(Tail(s))

\* The 1-based position of the first byte c of s, Len(s) + 1 when there is
\* none (std::find, std::string::find).
RECURSIVE Find(_, _)
Find(s, c) ==
   IF s = <<>> THEN 1 ELSE IF Head(s) = c THEN 1 ELSE 1 + Find(Tail(s), c)

\* The 1-based position of the last byte c of s, 0 when there is none
\* (std::string::rfind).
RECURSIVE RFind(_, _)
RFind(s, c) ==
   IF s = <<>> THEN 0
   ELSE IF s[Len(s)] = c THEN Len(s) ELSE RFind(SubSeq(s, 1, Len(s) - 1), c)

\* std::mismatch(prefix.begin, prefix.end, string.begin, string.end).first
\* == prefix.end: every byte of prefix is matched by string.
StringStartsWith(string, prefix) ==
   /\ Len(prefix) <= Len(string)
   /\ \A i \in 1..Len(prefix) : string[i] = prefix[i]

(* ------------------------------------------------------------------ *)
(* Character classes of Utils (http/utils.hpp), after RFC 7230 / RFC 3986 *)
(* ------------------------------------------------------------------ *)

IsAlpha(c) ==
   \/ c >= Ord("A") /\ c <= Ord("Z")
   \/ c >= Ord("a") /\ c <= Ord("z")

IsNumericCharacter(c) == c >= Ord("0") /\ c <= Ord("9")

\* RFC 7230 tchar.
TokenPunctuation ==
   { Ord(c) : c \in {"!", "#", "$", "%", "&", "'", "*", "+", "-", ".", "^", "_", "BACKTICK", "|", "~"} }

IsTokenCharacter(c) ==
   c \in TokenPunctuation \/ IsNumericCharacter(c) \/ IsAlpha(c)

\* The bytes of a request-target: RFC 3986 pchar, "/" and "?".
PathPunctuation ==
   { Ord(c) : c \in {"-", ".", "_", "~", "%", "!", "$", "&", "'", "(", ")", "*", "+", ",", ";", "=", ":", "@", "/", "?"} }

IsPathCharacter(c) ==
   c \in PathPunctuation \/ IsNumericCharacter(c) \/ IsAlpha(c)

(* ------------------------------------------------------------------ *)
(* The request parser.  A stage reads the bytes still on the wire, w:  *)
(* ReadChar takes the head of w and fails when w is empty (the peer    *)
(* has closed or the read has failed).  A stage returns its error, the *)
(* value it produced and the bytes it left on the wire.                *)
(* ------------------------------------------------------------------ *)

Stage(error, value, rest) == [error |-> error, value |-> value, rest |-> rest]

RECURSIVE ConsumeMethodLoop(_, _)
ConsumeMethodLoop(w, buffer) ==
   IF w = <<>> THEN Stage("FAILED_READ_METHOD", buffer, w)
   ELSE IF Head(w) = SP
        THEN IF buffer = <<>>
             THEN Stage("EMPTY_METHOD", buffer, Tail(w))
             ELSE Stage("NO_ERROR", buffer, Tail(w))
   ELSE IF ~IsTokenCharacter(Head(w))
        THEN Stage("INCORRECT_METHOD", buffer, Tail(w))
   ELSE ConsumeMethodLoop(Tail(w), Append(buffer, Head(w)))

\* value: the method, stored only with NO_ERROR.
ConsumeMethod(w) == ConsumeMethodLoop(w, <<>>)

RECURSIVE ConsumePathLoop(_, _)
ConsumePathLoop(w, buffer) ==
   IF w = <<>> THEN Stage("FAILED_READ_PATH", buffer, w)
   ELSE IF Head(w) = SP THEN Stage("NO_ERROR", buffer, Tail(w))
   ELSE IF ~IsPathCharacter(Head(w))
        THEN Stage("INCORRECT_PATH", buffer, Tail(w))
   ELSE ConsumePathLoop(Tail(w), Append(buffer, Head(w)))

\* value: the request-target, stored only with NO_ERROR.
ConsumePath(w) == ConsumePathLoop(w, <<>>)

\* ValidateCurrentRequestPath without its test of the first byte.
ValidateCurrentRequestPathNotEmpty(path) ==
   IF path = <<>> THEN "INVALID_PATH_EMPTY" ELSE "NO_ERROR"

ValidateCurrentRequestPath(path) ==
   IF path = <<>> THEN "INVALID_PATH_EMPTY"
   ELSE IF path[1] # SLASH THEN "INVALID_PATH_NOT_ABSOLUTE"
   ELSE "NO_ERROR"

\* The path decomposition without its test for a second "?": the split is
\* made at the first one.
ExtractComponentsFromPathAtFirst(request) ==
   LET path == request.path
       questionMark == Find(path, QUESTION)
   IN  IF questionMark = Len(path) + 1
       THEN [error |-> "NO_ERROR", request |-> request]
       ELSE [error |-> "NO_ERROR",
             request |-> [request EXCEPT
                !.path = SubSeq(path, 1, questionMark - 1),
                !.query = SubSeq(path, questionMark + 1, Len(path))]]

\* The request after the path decomposition, and its error.
ExtractComponentsFromPath(request) ==
   LET path == request.path
       questionMark == Find(path, QUESTION)
   IN  IF questionMark = Len(path) + 1
       THEN [error |-> "NO_ERROR", request |-> request]
       ELSE IF questionMark # RFind(path, QUESTION)
       THEN [error |-> "INVALID_PATH_MULTIPLE_QUESTION_MARKS", request |-> request]
       ELSE [error |-> "NO_ERROR",
             request |-> [request EXCEPT
                !.path = SubSeq(path, 1, questionMark - 1),
                !.query = SubSeq(path, questionMark + 1, Len(path))]]

expectedChars == Bytes(<<"H", "T", "T", "P", "/", "1", ".">>)

RECURSIVE ConsumeVersionLoop(_, _)
ConsumeVersionLoop(w, i) ==
   IF i = 8 THEN Stage("NO_ERROR", <<>>, w)
   ELSE IF w = <<>> THEN Stage("FAILED_READ_VERSION", <<>>, w)
   ELSE IF (IF i = 7 THEN ~IsNumericCharacter(Head(w))
                     ELSE Head(w) # expectedChars[i + 1])
        THEN Stage("INCORRECT_VERSION", <<>>, Tail(w))
   ELSE ConsumeVersionLoop(Tail(w), i + 1)

\* ConsumeVersion without the test of the digit after "HTTP/1.".
ConsumeVersionAnyMinor(w) ==
   LET checked == ConsumeVersionLoop(w, 0)
   IN  IF /\ checked.error = "INCORRECT_VERSION"
          /\ Len(w) >= 8
          /\ SubSeq(w, 1, 7) = expectedChars
       THEN Stage("NO_ERROR", <<>>, SubSeq(w, 9, Len(w)))
       ELSE checked

\* The version is checked and not stored.
ConsumeVersion(w) == ConsumeVersionLoop(w, 0)

ConsumeCRLF(w) ==
   IF Len(w) < 2 THEN Stage("FAILED_READ_CRLF", <<>>, <<>>)
   ELSE IF w[1] # CR \/ w[2] # LF
        THEN Stage("INCORRECT_CRLF", <<>>, Tail(Tail(w)))
   ELSE Stage("NO_ERROR", <<>>, Tail(Tail(w)))

unreservedCharacters ==
   { Ord(c) : c \in {"!", "#", "$", "%", "&", "'", "*", "+", "-", ".", "^", "_", "BACKTICK", "|", "~"} }

\* The bytes ConsumeHeaderFieldName accepts.
IsFieldNameCharacter(character) ==
   \/ character \in unreservedCharacters
   \/ character >= Ord("0") /\ character <= Ord("9")
   \/ character >= Ord("A") /\ character <= Ord("Z")
   \/ character >= Ord("a") /\ character <= Ord("z")

\* value: dest, to which the lower-cased bytes read are appended.
RECURSIVE ConsumeHeaderFieldName(_, _)
ConsumeHeaderFieldName(w, dest) ==
   IF w = <<>> THEN Stage("FAILED_READ_HEADER_FIELD_NAME", dest, w)
   ELSE IF Head(w) = COLON THEN Stage("NO_ERROR", dest, Tail(w))
   ELSE IF IsFieldNameCharacter(Head(w))
        THEN ConsumeHeaderFieldName(Tail(w), Append(dest, ToLower(Head(w))))
   ELSE Stage("INCORRECT_HEADER_FIELD_NAME", dest, Tail(w))

IsFieldValueCharacter(uc) ==
   \/ uc >= 33 /\ uc <= 126
   \/ uc >= 128 /\ uc <= 255
   \/ uc = SP \/ uc = HT

\* value: dest, to which the bytes read before the CR are appended.
RECURSIVE ConsumeHeaderFieldValue(_, _)
ConsumeHeaderFieldValue(w, dest) ==
   IF w = <<>> THEN Stage("FAILED_READ_HEADER_FIELD_VALUE", dest, w)
   ELSE IF Head(w) = CR
        THEN IF Tail(w) = <<>>
             THEN Stage("FAILED_READ_HEADER_NEWLINE", dest, <<>>)
             ELSE IF w[2] # LF
             THEN Stage("INCORRECT_HEADER_FIELD_NEWLINE", dest, Tail(Tail(w)))
             ELSE Stage("NO_ERROR", dest, Tail(Tail(w)))
   ELSE IF IsFieldValueCharacter(Head(w))
        THEN ConsumeHeaderFieldValue(Tail(w), Append(dest, Head(w)))
   ELSE Stage("INCORRECT_HEADER_FIELD_VALUE", dest, Tail(w))

\* The optional whitespace after the colon; value: the first byte that is
\* neither a space nor a tab, which begins fieldValue unchecked.
RECURSIVE ConsumeOWS(_)
ConsumeOWS(w) ==
   IF w = <<>> THEN Stage("FAILED_READ_HEADER_FIELD_GENERIC", <<>>, w)
   ELSE IF Head(w) # SP /\ Head(w) # HT THEN Stage("NO_ERROR", <<Head(w)>>, Tail(w))
   ELSE ConsumeOWS(Tail(w))

\* The name under which a field is stored: std::string(fieldName.data()).
StoredName(fieldName) == CString(Append(fieldName, NUL))

\* The value that is stored:
\* std::string(std::begin(fieldValue), endIterator - 1), the buffer ending in NUL.
StoredValue(fieldValue) ==
   LET buffer == Append(fieldValue, NUL)
       spaceIterator == Find(buffer, SP)
       tabIterator == Find(buffer, HT)
       endIterator == IF spaceIterator < tabIterator THEN spaceIterator ELSE tabIterator
   IN  SubSeq(buffer, 1, endIterator - 2)

\* std::map::insert: an existing key keeps its value.
MapInsert(headers, name, value) ==
   IF name \in DOMAIN headers THEN headers ELSE headers @@ (name :> value)

\* value: the headers of the request after the field.
ConsumeHeaderField(w, firstCharacter, headers) ==
   LET name == ConsumeHeaderFieldName(w, <<firstCharacter>>)
       ows == ConsumeOWS(name.rest)
       val == ConsumeHeaderFieldValue(ows.rest, ows.value)
   IN  IF name.error # "NO_ERROR" THEN Stage(name.error, headers, name.rest)
       ELSE IF ows.error # "NO_ERROR" THEN Stage(ows.error, headers, ows.rest)
       ELSE IF val.error # "NO_ERROR" THEN Stage(val.error, headers, val.rest)
       ELSE Stage("NO_ERROR",
                  MapInsert(headers, StoredName(name.value), StoredValue(val.value)),
                  val.rest)

\* value: the headers of the request; the fields before a failing one stay.
RECURSIVE ConsumeHeadersLoop(_, _)
ConsumeHeadersLoop(w, headers) ==
   IF w = <<>> THEN Stage("FAILED_READ_HEADER_FIELD_NAME", headers, w)
   ELSE IF Head(w) = CR
        THEN IF Tail(w) = <<>>
             THEN Stage("FAILED_READ_HEADER_NEWLINE", headers, <<>>)
             ELSE IF w[2] # LF
             THEN Stage("UNEXPECTED_CR_IN_FIELD_NAME", headers, Tail(Tail(w)))
             ELSE Stage("NO_ERROR", headers, Tail(Tail(w)))
   ELSE LET field == ConsumeHeaderField(Tail(w), Head(w), headers)
        IN  IF field.error # "NO_ERROR" THEN field
            ELSE ConsumeHeadersLoop(field.rest, field.value)

ConsumeHeaders(w, headers) == ConsumeHeadersLoop(w, headers)

(* ------------------------------------------------------------------ *)
(* Strings of the responses                                            *)
(* ------------------------------------------------------------------ *)

DefaultWebPage ==
   "<!doctype html><html lang=\"en\"><head><meta name=\"author\" content=\"Tristan\"><meta charset=\"utf-8\"><meta name=\"description\" content=\"It works! This is a default webpage.\"><title>Wizard Web Server - Default Webpage</title><style>*{font-family:\"Noto Sans\",\"Calibri\",\"Roboto\",sans-serif}html{background-color:#ddd;margin:0;height:100%}body{height:100%;margin:0}main{margin:0 10%;height:100%;width:80%;background-color:#fff}h1{padding-top:10%;margin:0;text-align:center}div{margin:0 6%}</style></head><body><main><h1>Wizard Web Server</h1><div><h3>It works!</h3><p>The fact that you can read this means that the web server has been configured correctly!</p><p>Now go ahead and change this page to your personal homepage :)</p></div><div><h3>About</h3><p>This is a default page, served to you by the <a href=\"https://github.com/usadson/WebServer\">Wizard Web Server</a>, a free BSD-3-Clause licensed webserver.</p></div></main></body></html>"

NotFoundPage ==
   "<!doctype html><html><head><title>File Not Found</title></head><body><h1>File Not Found</h1></body></html>"

TooManyRequestsPage ==
   "<!doctype html><html><head><title>Too Many Requests</title></head><body><h1>Too Many Requests!</h1></body></html>"

StatusBadRequest == "HTTP/1.1 400 Bad Request"
StatusNotFound == "HTTP/1.1 404 Not Found"
StatusOK == "HTTP/1.1 200 OK"
StatusTooManyRequests == "HTTP/1.1 429 Too Many Requests"

\* Strings::BadRequests::EmptyMethod.
EmptyMethod == "invalid method: empty"

HEAD == Bytes(<<"H", "E", "A", "D">>)
connectionHeader == Bytes(<<"c", "o", "n", "n", "e", "c", "t", "i", "o", "n">>)
closeValue == Bytes(<<"c", "l", "o", "s", "e">>)
indexPathTarget == Bytes(<<"/", "i", "n", "d", "e", "x", ".", "h", "t", "m", "l">>)

\* The root directory of the server that serves files.
rootDirectory == Bytes(<<"/", "v", "a", "r", "/", "w", "w", "w", "/", "h", "t", "m", "l">>)

(* ------------------------------------------------------------------ *)
(* The session: requests, responses and the functions of Client        *)
(* ------------------------------------------------------------------ *)

\* Request(): the request an exchange starts from.
Request == [method |-> <<>>, path |-> <<>>, query |-> <<>>, headers |-> <<>>]

\* What an exchange has written: the metadata block handed to WriteString
\* (status line, Content-Length, Connection) and whether the write succeeded;
\* the body handed to WriteString, or the SendFile call, and its outcome.
NoResponse ==
   [attempted |-> FALSE, statusLine |-> "", contentLength |-> 0, connection |-> "",
    metadataWritten |-> FALSE, body |-> "", sendFile |-> FALSE, bodyWrite |-> "none"]

\* The metadata block, and the outcome written of WriteString.
SendMetadata(response, contentLength, persistent, written) ==
   [NoResponse EXCEPT
      !.attempted = TRUE,
      !.statusLine = response,
      !.contentLength = contentLength,
      !.connection = IF persistent THEN "keep-alive" ELSE "close",
      !.metadataWritten = written]

Outcome(ok) == IF ok THEN "ok" ELSE "failed"

\* ServeStringRequest without its test for HEAD: the body is always written.
ServeStringRequestWithBody(request, persistent, responseLine, body, metaOk, bodyOk) ==
   LET metadata == SendMetadata(responseLine, Len(body), persistent, metaOk)
   IN  IF ~metaOk THEN [result |-> FALSE, response |-> metadata]
       ELSE [result |-> bodyOk,
             response |-> [metadata EXCEPT !.body = body, !.bodyWrite = Outcome(bodyOk)]]

\* result: what ServeStringRequest returns.
ServeStringRequest(request, persistent, responseLine, body, metaOk, bodyOk) ==
   LET metadata == SendMetadata(responseLine, Len(body), persistent, metaOk)
   IN  IF ~metaOk THEN [result |-> FALSE, response |-> metadata]
       ELSE IF request.method = HEAD THEN [result |-> TRUE, response |-> metadata]
       ELSE [result |-> bodyOk,
             response |-> [metadata EXCEPT !.body = body, !.bodyWrite = Outcome(bodyOk)]]

\* realpath and the prefix test on the file the resolver returned.
CheckFileLocation(file) ==
   IF ~file.resolvable THEN "CHECK_FILE_LOCATION_VERIFICATION_FAILURE"
   ELSE IF ~StringStartsWith(file.realpath, rootDirectory)
        THEN "CHECK_FILE_LOCATION_OUTSIDE_ROOT_DIRECTORY"
   ELSE "NO_ERROR"

\* The quota test of HandleRequest: ++requestCount is evaluated only when the
\* two tests before it hold.
QuotaCounts(policy) ==
   ~policy.maxRequestsCloseImmediately /\ policy.maxRequestsPerConnection # 0

\* file: what the resolver returned, NoFile for none.  resolved: whether the
\* resolver was asked.
NoFile == [found |-> FALSE, resolvable |-> FALSE, realpath |-> <<>>, size |-> 0]

\* HandleRequest with the resolver asked before the quota is tested.
HandleRequestResolvingFirst(request, persistent, count, policy, file, metaOk, bodyOk) ==
   LET counted == IF QuotaCounts(policy) THEN count + 1 ELSE count
       location == CheckFileLocation(file)
       metadata == SendMetadata(StatusOK, file.size, persistent, metaOk)
       out(error, resolved, response) ==
          [error |-> error, requestCount |-> counted, resolved |-> resolved,
           response |-> response]
   IN  IF QuotaCounts(policy) /\ counted > policy.maxRequestsPerConnection
       THEN out("TOO_MANY_REQUESTS_PER_THIS_CONNECTION", TRUE, NoResponse)
       ELSE IF ~file.found THEN out("FILE_NOT_FOUND", TRUE, NoResponse)
       ELSE IF location # "NO_ERROR" THEN out(location, TRUE, NoResponse)
       ELSE IF ~metaOk THEN out("FAILED_WRITE_RESPONSE_METADATA", TRUE, metadata)
       ELSE IF request.method # HEAD
       THEN out(IF bodyOk THEN "NO_ERROR" ELSE "FAILED_WRITE_RESPONSE_BODY", TRUE,
                [metadata EXCEPT !.sendFile = TRUE, !.bodyWrite = Outcome(bodyOk)])
       ELSE out("NO_ERROR", TRUE, metadata)

HandleRequest(request, persistent, count, policy, file, metaOk, bodyOk) ==
   LET counted == IF QuotaCounts(policy) THEN count + 1 ELSE count
       location == CheckFileLocation(file)
       metadata == SendMetadata(StatusOK, file.size, persistent, metaOk)
       out(error, resolved, response) ==
          [error |-> error, requestCount |-> counted, resolved |-> resolved,
           response |-> response]
   IN  IF QuotaCounts(policy) /\ counted > policy.maxRequestsPerConnection
       THEN out("TOO_MANY_REQUESTS_PER_THIS_CONNECTION", FALSE, NoResponse)
       ELSE IF ~file.found THEN out("FILE_NOT_FOUND", TRUE, NoResponse)
       ELSE IF location # "NO_ERROR" THEN out(location, TRUE, NoResponse)
       ELSE IF ~metaOk THEN out("FAILED_WRITE_RESPONSE_METADATA", TRUE, metadata)
       ELSE IF request.method # HEAD
       THEN out(IF bodyOk THEN "NO_ERROR" ELSE "FAILED_WRITE_RESPONSE_BODY", TRUE,
                [metadata EXCEPT !.sendFile = TRUE, !.bodyWrite = Outcome(bodyOk)])
       ELSE out("NO_ERROR", TRUE, metadata)

\* strcasecmp(header->second.c_str(), "close") == 0 on the "connection" header.
InterpretConnectionHeaders(request, persistent) ==
   IF /\ persistent
      /\ connectionHeader \in DOMAIN request.headers
      /\ Lower(CString(request.headers[connectionHeader])) = closeValue
   THEN FALSE
   ELSE persistent

\* The message of the 400 response of an error, "" for an error with none.
BadRequestMessage(error) ==
   CASE error = "EMPTY_METHOD" -> EmptyMethod
     [] error = "INCORRECT_HEADER_FIELD_NAME" -> "invalid header field-name"
     [] error = "INCORRECT_HEADER_FIELD_NEWLINE" -> "expected newline (CRLF) after header field"
     [] error = "INCORRECT_HEADER_FIELD_VALUE" -> "invalid header field-value"
     [] error = "INCORRECT_METHOD" -> "invalid method: not a token as per RFC 7230 section 3.2.6"
     [] error = "INCORRECT_PATH" -> "incorrect request-target"
     [] error = "INCORRECT_CRLF" -> "request-line should end with a newline (CRLF)"
     [] error = "INCORRECT_VERSION" -> "invalid HTTP version as per RFC 7230 section 2.6"
     [] error = "INVALID_PATH_EMPTY" -> "request-target was empty"
     [] error = "INVALID_PATH_NOT_ABSOLUTE" -> "only absolute-path request-target supported"
     [] OTHER -> ""

Recovered(served, persistent, reported) ==
   [result |-> served.result, response |-> served.response,
    persistentConnection |-> persistent, reported |-> reported]

\* The 400 response without MarkConnectionClosing before it.
RecoverErrorBadRequestUnmarked(request, persistent, message, metaOk, bodyOk) ==
   Recovered(ServeStringRequest(request, persistent, StatusBadRequest,
                                "Malformed request: " \o message, metaOk, bodyOk),
             persistent, FALSE)

\* MarkConnectionClosing, then the 400 response.
RecoverErrorBadRequest(request, persistent, message, metaOk, bodyOk) ==
   LET marked == FALSE
   IN  Recovered(ServeStringRequest(request, marked, StatusBadRequest,
                                    "Malformed request: " \o message, metaOk, bodyOk),
                 marked, FALSE)

RecoverErrorFileNotFound(request, persistent, metaOk, bodyOk) ==
   ServeStringRequest(request, persistent, StatusNotFound, NotFoundPage, metaOk, bodyOk)

RecoverErrorTooManyRequestsPerThisConnection(request, persistent, metaOk, bodyOk) ==
   Recovered(ServeStringRequest(request, persistent, StatusTooManyRequests,
                                TooManyRequestsPage, metaOk, bodyOk),
             persistent, FALSE)

ServeDefaultPage(request, persistent, metaOk, bodyOk) ==
   ServeStringRequest(request, persistent, StatusOK, DefaultWebPage, metaOk, bodyOk)

\* RecoverError with a 400 response in its default branch as well.
RecoverErrorAnsweringEvery(error, request, persistent, written, metaOk, bodyOk) ==
   IF error = "FILE_NOT_FOUND"
   THEN IF StringStartsWith(indexPathTarget, request.path)
        THEN Recovered(ServeDefaultPage(request, persistent, metaOk, bodyOk),
                       persistent, FALSE)
        ELSE Recovered(RecoverErrorFileNotFound(request, persistent, metaOk, bodyOk),
                       persistent, TRUE)
   ELSE IF error = "TOO_MANY_REQUESTS_PER_THIS_CONNECTION"
   THEN RecoverErrorTooManyRequestsPerThisConnection(request, persistent, metaOk, bodyOk)
   ELSE RecoverErrorBadRequest(request, persistent,
                               IF BadRequestMessage(error) # ""
                               THEN BadRequestMessage(error) ELSE "unknown error",
                               metaOk, bodyOk)

\* result: what RecoverError returns, the outcome of the exchange.  written:
\* what the exchange had written before the error.
RecoverError(error, request, persistent, written, metaOk, bodyOk) ==
   IF error = "FILE_NOT_FOUND"
   THEN IF StringStartsWith(indexPathTarget, request.path)
        THEN Recovered(ServeDefaultPage(request, persistent, metaOk, bodyOk),
                       persistent, FALSE)
        ELSE Recovered(RecoverErrorFileNotFound(request, persistent, metaOk, bodyOk),
                       persistent, TRUE)
   ELSE IF BadRequestMessage(error) # ""
   THEN RecoverErrorBadRequest(request, persistent, BadRequestMessage(error), metaOk, bodyOk)
   ELSE IF error = "TOO_MANY_REQUESTS_PER_THIS_CONNECTION"
   THEN RecoverErrorTooManyRequestsPerThisConnection(request, persistent, metaOk, bodyOk)
   ELSE [result |-> FALSE, response |-> written,
         persistentConnection |-> persistent, reported |-> FALSE]

\* ResetExchangeState closing only when the counter exceeds the limit.
ResetExchangeStateStrict(count, persistent, policy) ==
   LET counts == policy.maxRequestsCloseImmediately /\ policy.maxRequestsPerConnection # 0
       counted == IF counts THEN count + 1 ELSE count
   IN  [requestCount |-> counted,
        persistentConnection |->
           IF counts /\ counted > policy.maxRequestsPerConnection
           THEN FALSE ELSE persistent]

\* ResetExchangeState starting the flag afresh as it does the request.
ResetExchangeStateFresh(count, persistent, policy) ==
   LET counts == policy.maxRequestsCloseImmediately /\ policy.maxRequestsPerConnection # 0
       counted == IF counts THEN count + 1 ELSE count
   IN  [requestCount |-> counted,
        persistentConnection |->
           IF counts /\ counted >= policy.maxRequestsPerConnection
           THEN FALSE ELSE TRUE]

\* The counter and the flag after ResetExchangeState.
ResetExchangeState(count, persistent, policy) ==
   LET counts == policy.maxRequestsCloseImmediately /\ policy.maxRequestsPerConnection # 0
       counted == IF counts THEN count + 1 ELSE count
   IN  [requestCount |-> counted,
        persistentConnection |->
           IF counts /\ counted >= policy.maxRequestsPerConnection
           THEN FALSE ELSE persistent]

\* The condition of the loop with the flag negated.
LoopConditionNegated(success, persistent) == success /\ ~persistent

\* The condition of the loop of Entrypoint.
LoopCondition(success, persistent) == success /\ persistent

(* ------------------------------------------------------------------ *)
(* What the peer sends and what the file resolver returns              *)
(* ------------------------------------------------------------------ *)

\* The most requests the quota counts on one connection before the peer closes.
MaxCount == 3
\* The largest maxRequestsPerConnection of the security policies.
MaxRequests == 2
\* The most header fields of a request.
MaxFields == 2

GET == Bytes(<<"G", "E", "T">>)
Version11 == Bytes(<<"H", "T", "T", "P", "/", "1", ".", "1">>)

Field(name, ows, value, eol) == [name |-> name, ows |-> ows, value |-> value, eol |-> eol]

\* Fields the grammar of header fields allows.
GoodFields ==
   { Field(connectionHeader, <<SP>>, closeValue, CRLF),
     Field(Bytes(<<"C", "o", "n", "n", "e", "c", "t", "i", "o", "n">>), <<SP>>, closeValue, CRLF),
     Field(Bytes(<<"X", "-", "A">>), <<SP, HT>>, Bytes(<<"C", "l", "o", "s", "e">>), CRLF),
     Field(Bytes(<<"x", "-", "b">>), <<>>, <<>>, CRLF) }

\* Fields that break it: a name and a first byte that are no token, a control
\* byte in the value, a CR without LF after the value.
BadFields ==
   { Field(Bytes(<<"a", "@", "b">>), <<SP>>, Bytes(<<"v">>), CRLF),
     Field(Bytes(<<"@", "b">>), <<SP>>, Bytes(<<"v">>), CRLF),
     Field(Bytes(<<"a">>), <<SP>>, <<Ord("v"), 1>>, CRLF),
     Field(Bytes(<<"a">>), <<SP>>, Bytes(<<"v">>), <<CR, CR>>) }

\* The blocks of at most n allowed fields.
GoodBlocks(n) == UNION { [1..k -> GoodFields] : k \in 0..n }

\* The blocks that end in a field the parser rejects.
BadBlocks == { Append(fs, f) : fs \in GoodBlocks(MaxFields - 1), f \in BadFields }

RequestOf(method, target, version, eol, fields, term) ==
   [method |-> method, target |-> target, version |-> version, eol |-> eol,
    fields |-> fields, term |-> term]

BaseRequest == RequestOf(GET, <<SLASH>>, Version11, CRLF, <<>>, CRLF)

GoodTargets == { <<SLASH>>, Bytes(<<"/", "a", "?", "x", "=", "1">>) }

BadTargets ==
   { <<>>, Bytes(<<"a">>), Bytes(<<"/", "<">>),
     Bytes(<<"/", "a", "?", "x", "=", "1", "?", "y", "=", "2">>) }

\* Targets whose path is a prefix of "/index.html", the whole of it, and
\* "/index.html" with more after it.
IndexTargets ==
   { Bytes(<<"/", "i">>),
     Bytes(<<"/", "i", "n", "d", "e", "x", ".", "h", "t", "m", "l">>),
     Bytes(<<"/", "i", "n", "d", "e", "x", ".", "h", "t", "m", "l", "x">>) }

FieldXC(value) == Field(Bytes(<<"x", "-", "c">>), <<SP>>, value, CRLF)

\* Blocks of allowed fields whose values hold whitespace inside and at their
\* end, and a block with one field-name twice.
SpacedBlocks ==
   { << FieldXC(<<Ord("a"), SP, Ord("b")>>) >>,
     << FieldXC(<<Ord("a"), Ord("b"), SP, HT>>) >>,
     << FieldXC(<<Ord("a"), HT, Ord("b"), SP>>) >> }

DuplicateBlocks == { << FieldXC(Bytes(<<"v">>)), FieldXC(Bytes(<<"w">>)) >> }

\* The requests a peer sends: the request lines the grammar allows, with every
\* block of allowed fields; the base request with every block that ends in a
\* rejected field; the base request with the targets about "/index.html" and
\* with the blocks of spaced and repeated fields; and the base request with
\* one part of its request line or its end broken.
Requests ==
   { [BaseRequest EXCEPT !.method = m, !.target = t, !.fields = fs] :
        m \in {GET, HEAD}, t \in GoodTargets, fs \in GoodBlocks(MaxFields) }
   \cup { [BaseRequest EXCEPT !.fields = fs] : fs \in BadBlocks }
   \cup { [BaseRequest EXCEPT !.target = t] : t \in IndexTargets }
   \cup { [BaseRequest EXCEPT !.fields = fs] : fs \in SpacedBlocks \cup DuplicateBlocks }
   \cup { [BaseRequest EXCEPT !.method = m] : m \in {<<>>, Bytes(<<"G", "@", "T">>)} }
   \cup { [BaseRequest EXCEPT !.target = t] : t \in BadTargets }
   \cup { [BaseRequest EXCEPT !.version = v] :
             v \in { Bytes(<<"H", "T", "T", "P", "/", "1", ".", "0">>),
                     Bytes(<<"H", "T", "T", "P", "/", "2", ".", "0">>),
                     Bytes(<<"H", "T", "T", "P", "/", "1", ".", "x">>) } }
   \cup { [BaseRequest EXCEPT !.eol = <<CR, CR>>],
          [BaseRequest EXCEPT !.term = <<CR, Ord("X")>>] }

RECURSIVE EncodeFields(_)
EncodeFields(fields) ==
   IF fields = <<>> THEN <<>>
   ELSE LET f == Head(fields)
        IN  f.name \o <<COLON>> \o f.ows \o f.value \o f.eol \o EncodeFields(Tail(fields))

\* The bytes of a request on the wire.
Encode(r) ==
   r.method \o <<SP>> \o r.target \o <<SP>> \o r.version \o r.eol
      \o EncodeFields(r.fields) \o r.term

\* The request a peer may stop in the middle of, closing the connection.
TruncatedRequest ==
   [BaseRequest EXCEPT !.target = Bytes(<<"/", "a", "?", "x", "=", "1">>),
                       !.fields = <<Field(Bytes(<<"x">>), <<SP>>, Bytes(<<"v">>), CRLF)>>]

\* The numbers of bytes of r the peer may deliver.
Cuts(r) == IF r = TruncatedRequest THEN 0..Len(Encode(r)) ELSE {Len(Encode(r))}

NoRequest == [request |-> RequestOf(<<>>, <<>>, <<>>, <<>>, <<>>, <<>>), cut |-> 0]

FileAt(realpath, size) ==
   [found |-> TRUE, resolvable |-> TRUE, realpath |-> realpath, size |-> size]

\* The files the resolver may return: one below the root directory, one in a
\* sibling directory whose name begins with the root's, one elsewhere, one
\* whose path realpath cannot resolve.
Files ==
   { FileAt(rootDirectory \o Bytes(<<"/", "a">>), 2),
     FileAt(rootDirectory \o Bytes(<<"2", "/", "a">>), 1),
     FileAt(Bytes(<<"/", "e", "t", "c", "/", "p">>), 3),
     [found |-> TRUE, resolvable |-> FALSE, realpath |-> <<>>, size |-> 1] }

(* ------------------------------------------------------------------ *)
(* The state of one session and its steps                              *)
(* ------------------------------------------------------------------ *)

VARIABLES
   pc,                      \* where the session thread is
   policy,                  \* server->config().securityPolicies
   connection,              \* "new", "open" (Setup done), "released" (Clean)
   wire,                    \* the bytes the peer has sent and the session has not read
   sent,                    \* the request the peer sent to the exchange, and how much of it
   currentRequest,
   persistentConnection,
   requestCount,
   error,                   \* the error of the message exchange
   previousRequestSuccess,
   response,                \* what the message exchange has written
   file,                    \* the file the resolver returned to the exchange
   reported,                \* the exchange called ErrorReporter::ReportError
   setupCount,              \* the calls of Connection::Setup
   deathReports,            \* the calls of Server::SignalClientDeath
   main,                    \* where main is: "Running", "ShutdownSignalled", "Joined"
   registry                 \* the threads of the sessions the server tracks

vars ==
   << pc, policy, connection, wire, sent, currentRequest, persistentConnection,
      requestCount, error, previousRequestSuccess, response, file, reported,
      setupCount, deathReports, main, registry >>

\* The thread of the session, by which the server tracks it.
thread == "thread"

\* The session as its constructor leaves it, the members of Client and the
\* locals of Entrypoint before its first statement.
ClientInit ==
   /\ policy \in [maxRequestsPerConnection : 0..MaxRequests,
                  maxRequestsCloseImmediately : BOOLEAN]
   /\ connection = "new"
   /\ wire = <<>>
   /\ sent = NoRequest
   /\ currentRequest = Request
   /\ persistentConnection = TRUE
   /\ requestCount = 0
   /\ error = "NO_ERROR"
   /\ previousRequestSuccess = FALSE
   /\ response = NoResponse
   /\ file = NoFile
   /\ reported = FALSE
   /\ setupCount = 0
   /\ deathReports = 0

\* A session the server has accepted and tracks, its thread started, main
\* waiting for its input.
Init ==
   /\ ClientInit
   /\ pc = "Setup"
   /\ main = "Running"
   /\ registry = {thread}

\* Entrypoint without the return after the Clean of a failed Setup: the death
\* is reported and the loop entered all the same.
SetupWithoutReturn ==
   /\ pc = "Setup"
   /\ \E ok \in BOOLEAN :
         /\ connection' = IF ok THEN "open" ELSE "released"
         /\ deathReports' = IF ok THEN deathReports ELSE deathReports + 1
         /\ registry' = IF ok THEN registry ELSE registry \ {thread}
   /\ pc' = "AwaitRequest"
   /\ setupCount' = setupCount + 1
   /\ UNCHANGED << policy, wire, sent, currentRequest, persistentConnection,
                   requestCount, error, previousRequestSuccess, response, file,
                   reported, main >>

\* Entrypoint: connection->Setup; a failure goes to Clean.
Setup ==
   /\ pc = "Setup"
   /\ \E ok \in BOOLEAN :
         /\ connection' = IF ok THEN "open" ELSE connection
         /\ pc' = IF ok THEN "AwaitRequest" ELSE "Clean"
   /\ setupCount' = setupCount + 1
   /\ UNCHANGED << policy, wire, sent, currentRequest, persistentConnection,
                   requestCount, error, previousRequestSuccess, response, file,
                   reported, deathReports, main, registry >>

\* RunMessageExchange begins and blocks in its first read: the peer sends a
\* request, or a part of one, or closes.
PeerSend ==
   /\ pc = "AwaitRequest"
   /\ \E r \in Requests \cup {TruncatedRequest} : \E cut \in Cuts(r) :
         /\ requestCount < MaxCount \/ cut = 0
         /\ sent' = [request |-> r, cut |-> cut]
         /\ wire' = wire \o SubSeq(Encode(r), 1, cut)
   /\ pc' = "ConsumeMethod"
   /\ UNCHANGED << policy, connection, currentRequest, persistentConnection,
                   requestCount, error, previousRequestSuccess, response, file,
                   reported, setupCount, deathReports, main, registry >>

\* A parsing stage of RunMessageExchange has returned: the next stage, or
\* RecoverError with its error.
Return(stage, next) ==
   /\ wire' = stage.rest
   /\ error' = stage.error
   /\ pc' = IF stage.error = "NO_ERROR" THEN next ELSE "RecoverError"

CallConsumeMethod ==
   /\ pc = "ConsumeMethod"
   /\ LET stage == ConsumeMethod(wire)
      IN  /\ Return(stage, "ConsumePath")
          /\ currentRequest' =
                IF stage.error = "NO_ERROR"
                THEN [currentRequest EXCEPT !.method = stage.value]
                ELSE currentRequest
   /\ UNCHANGED << policy, connection, sent, persistentConnection, requestCount,
                   previousRequestSuccess, response, file, reported, setupCount,
                   deathReports, main, registry >>

CallConsumePath ==
   /\ pc = "ConsumePath"
   /\ LET stage == ConsumePath(wire)
      IN  /\ Return(stage, "ValidateCurrentRequestPath")
          /\ currentRequest' =
                IF stage.error = "NO_ERROR"
                THEN [currentRequest EXCEPT !.path = stage.value]
                ELSE currentRequest
   /\ UNCHANGED << policy, connection, sent, persistentConnection, requestCount,
                   previousRequestSuccess, response, file, reported, setupCount,
                   deathReports, main, registry >>

CallValidateCurrentRequestPath ==
   /\ pc = "ValidateCurrentRequestPath"
   /\ Return(Stage(ValidateCurrentRequestPath(currentRequest.path), <<>>, wire),
             "ExtractComponentsFromPath")
   /\ UNCHANGED << policy, connection, sent, currentRequest, persistentConnection,
                   requestCount, previousRequestSuccess, response, file, reported,
                   setupCount, deathReports, main, registry >>

CallExtractComponentsFromPath ==
   /\ pc = "ExtractComponentsFromPath"
   /\ LET extracted == ExtractComponentsFromPath(currentRequest)
      IN  /\ Return(Stage(extracted.error, <<>>, wire), "ConsumeVersion")
          /\ currentRequest' = extracted.request
   /\ UNCHANGED << policy, connection, sent, persistentConnection, requestCount,
                   previousRequestSuccess, response, file, reported, setupCount,
                   deathReports, main, registry >>

CallConsumeVersion ==
   /\ pc = "ConsumeVersion"
   /\ Return(ConsumeVersion(wire), "ConsumeCRLF")
   /\ UNCHANGED << policy, connection, sent, currentRequest, persistentConnection,
                   requestCount, previousRequestSuccess, response, file, reported,
                   setupCount, deathReports, main, registry >>

CallConsumeCRLF ==
   /\ pc = "ConsumeCRLF"
   /\ Return(ConsumeCRLF(wire), "ConsumeHeaders")
   /\ UNCHANGED << policy, connection, sent, currentRequest, persistentConnection,
                   requestCount, previousRequestSuccess, response, file, reported,
                   setupCount, deathReports, main, registry >>

CallConsumeHeaders ==
   /\ pc = "ConsumeHeaders"
   /\ LET stage == ConsumeHeaders(wire, currentRequest.headers)
      IN  /\ Return(stage, "InterpretConnectionHeaders")
          /\ currentRequest' = [currentRequest EXCEPT !.headers = stage.value]
   /\ UNCHANGED << policy, connection, sent, persistentConnection, requestCount,
                   previousRequestSuccess, response, file, reported, setupCount,
                   deathReports, main, registry >>

CallInterpretConnectionHeaders ==
   /\ pc = "InterpretConnectionHeaders"
   /\ persistentConnection' =
         InterpretConnectionHeaders(currentRequest, persistentConnection)
   /\ pc' = "HandleRequest"
   /\ UNCHANGED << policy, connection, wire, sent, currentRequest, requestCount,
                   error, previousRequestSuccess, response, file, reported,
                   setupCount, deathReports, main, registry >>

\* HandleRequest with what its collaborators answer: the file of the resolver
\* and the outcomes of the two writes.  With NO_ERROR RunMessageExchange
\* returns true.
CallHandleRequest ==
   /\ pc = "HandleRequest"
   /\ \E f \in Files \cup {NoFile}, metaOk \in BOOLEAN, bodyOk \in BOOLEAN :
         LET handled == HandleRequest(currentRequest, persistentConnection,
                                      requestCount, policy, f, metaOk, bodyOk)
         IN  /\ requestCount' = handled.requestCount
             /\ error' = handled.error
             /\ response' = handled.response
             /\ file' = IF handled.resolved THEN f ELSE NoFile
             /\ previousRequestSuccess' =
                   IF handled.error = "NO_ERROR" THEN TRUE ELSE previousRequestSuccess
             /\ pc' = IF handled.error = "NO_ERROR"
                      THEN "ResetExchangeState" ELSE "RecoverError"
   /\ UNCHANGED << policy, connection, wire, sent, currentRequest,
                   persistentConnection, reported, setupCount, deathReports, main, registry >>

\* RecoverError with the outcomes of its writes; RunMessageExchange returns
\* what it returns.
CallRecoverError ==
   /\ pc = "RecoverError"
   /\ \E metaOk \in BOOLEAN, bodyOk \in BOOLEAN :
         LET recovered == RecoverError(error, currentRequest, persistentConnection,
                                       response, metaOk, bodyOk)
         IN  /\ previousRequestSuccess' = recovered.result
             /\ response' = recovered.response
             /\ persistentConnection' = recovered.persistentConnection
             /\ reported' = recovered.reported
   /\ pc' = "ResetExchangeState"
   /\ UNCHANGED << policy, connection, wire, sent, currentRequest, requestCount,
                   error, file, setupCount, deathReports, main, registry >>

\* ResetExchangeState without the fresh Request.
CallResetExchangeStateKeepingRequest ==
   /\ pc = "ResetExchangeState"
   /\ LET reset == ResetExchangeState(requestCount, persistentConnection, policy)
      IN  /\ requestCount' = reset.requestCount
          /\ persistentConnection' = reset.persistentConnection
   /\ pc' = "LoopCondition"
   /\ UNCHANGED << policy, connection, wire, sent, currentRequest, error,
                   previousRequestSuccess, response, file, reported, setupCount,
                   deathReports, main, registry >>

CallResetExchangeState ==
   /\ pc = "ResetExchangeState"
   /\ currentRequest' = Request
   /\ LET reset == ResetExchangeState(requestCount, persistentConnection, policy)
      IN  /\ requestCount' = reset.requestCount
          /\ persistentConnection' = reset.persistentConnection
   /\ pc' = "LoopCondition"
   /\ UNCHANGED << policy, connection, wire, sent, error, previousRequestSuccess,
                   response, file, reported, setupCount, deathReports, main, registry >>

\* The loop of Entrypoint left by a return, Clean not called.
EntrypointLoopReturning ==
   /\ pc = "LoopCondition"
   /\ IF LoopCondition(previousRequestSuccess, persistentConnection)
      THEN /\ pc' = "AwaitRequest"
           /\ sent' = NoRequest
           /\ error' = "NO_ERROR"
           /\ response' = NoResponse
           /\ file' = NoFile
           /\ reported' = FALSE
      ELSE /\ pc' = IF previousRequestSuccess THEN "Clean" ELSE "Done"
           /\ UNCHANGED << sent, error, response, file, reported >>
   /\ UNCHANGED << policy, connection, wire, currentRequest, persistentConnection,
                   requestCount, previousRequestSuccess, setupCount, deathReports,
                   main, registry >>

\* while (previousRequestSuccess && persistentConnection): another iteration
\* begins with nothing sent, no error, nothing written and no file.
EntrypointLoop ==
   /\ pc = "LoopCondition"
   /\ IF LoopCondition(previousRequestSuccess, persistentConnection)
      THEN /\ pc' = "AwaitRequest"
           /\ sent' = NoRequest
           /\ error' = "NO_ERROR"
           /\ response' = NoResponse
           /\ file' = NoFile
           /\ reported' = FALSE
      ELSE /\ pc' = "Clean"
           /\ UNCHANGED << sent, error, response, file, reported >>
   /\ UNCHANGED << policy, connection, wire, currentRequest, persistentConnection,
                   requestCount, previousRequestSuccess, setupCount, deathReports, main, registry >>

\* Clean: the connection is released and the death reported.
Clean ==
   /\ pc = "Clean"
   /\ connection' = "released"
   /\ deathReports' = deathReports + 1
   /\ registry' = registry \ {thread}
   /\ pc' = "Done"
   /\ UNCHANGED << policy, wire, sent, currentRequest, persistentConnection,
                   requestCount, error, previousRequestSuccess, response, file,
                   reported, setupCount, main >>

Next ==
   \/ Setup
   \/ PeerSend
   \/ CallConsumeMethod
   \/ CallConsumePath
   \/ CallValidateCurrentRequestPath
   \/ CallExtractComponentsFromPath
   \/ CallConsumeVersion
   \/ CallConsumeCRLF
   \/ CallConsumeHeaders
   \/ CallInterpretConnectionHeaders
   \/ CallHandleRequest
   \/ CallRecoverError
   \/ CallResetExchangeState
   \/ EntrypointLoop
   \/ Clean

Spec == Init /\ [][Next]_vars

(* ------------------------------------------------------------------ *)
(* The server that accepts the session, and main that shuts it down    *)
(* ------------------------------------------------------------------ *)

\* The server started, with no connection accepted yet, under a policy of
\* one request for each connection.
ServerInit ==
   /\ ClientInit
   /\ policy.maxRequestsPerConnection = 1
   /\ pc = "NotAccepted"
   /\ main = "Running"
   /\ registry = {}

\* The server accepts a connection, unless the shutdown has been signalled:
\* the session is constructed, its thread started and tracked.
Accept ==
   /\ pc = "NotAccepted"
   /\ main = "Running"
   /\ pc' = "Setup"
   /\ registry' = registry \cup {thread}
   /\ UNCHANGED << policy, connection, wire, sent, currentRequest,
                   persistentConnection, requestCount, error, previousRequestSuccess,
                   response, file, reported, setupCount, deathReports, main >>

\* main has read its input and calls SignalShutdown.
SignalShutdown ==
   /\ main = "Running"
   /\ main' = "ShutdownSignalled"
   /\ UNCHANGED << pc, policy, connection, wire, sent, currentRequest,
                   persistentConnection, requestCount, error, previousRequestSuccess,
                   response, file, reported, setupCount, deathReports, registry >>

\* Join returns to main once no session is tracked any more.
Join ==
   /\ main = "ShutdownSignalled"
   /\ registry = {}
   /\ main' = "Joined"
   /\ UNCHANGED << pc, policy, connection, wire, sent, currentRequest,
                   persistentConnection, requestCount, error, previousRequestSuccess,
                   response, file, reported, setupCount, deathReports, registry >>

ServerNext ==
   \/ Accept
   \/ SignalShutdown
   \/ Join
   \/ Setup
   \/ PeerSend
   \/ CallConsumeMethod
   \/ CallConsumePath
   \/ CallValidateCurrentRequestPath
   \/ CallExtractComponentsFromPath
   \/ CallConsumeVersion
   \/ CallConsumeCRLF
   \/ CallConsumeHeaders
   \/ CallInterpretConnectionHeaders
   \/ CallHandleRequest
   \/ CallRecoverError
   \/ CallResetExchangeState
   \/ EntrypointLoop
   \/ Clean

ServerSpec == ServerInit /\ [][ServerNext]_vars

(* ------------------------------------------------------------------ *)
(* The grammar of a request, stated on what the peer sent              *)
(* ------------------------------------------------------------------ *)

\* The peer has sent a request to the exchange and all of it has arrived.
Complete == sent # NoRequest /\ sent.cut = Len(Encode(sent.request))

Occurrences(s, c) == Cardinality({ i \in 1..Len(s) : s[i] = c })

IsToken(s) == s # <<>> /\ \A i \in 1..Len(s) : IsTokenCharacter(s[i])

WellFormedTarget(t) ==
   /\ t # <<>> /\ t[1] = SLASH
   /\ \A i \in 1..Len(t) : IsPathCharacter(t[i])
   /\ Occurrences(t, QUESTION) <= 1

WellFormedVersion(v) ==
   /\ Len(v) = 8
   /\ SubSeq(v, 1, 7) = Bytes(<<"H", "T", "T", "P", "/", "1", ".">>)
   /\ IsNumericCharacter(v[8])

\* field-name ":" OWS field-value CRLF; the field-value may be empty and
\* begins with no whitespace.
WellFormedField(f) ==
   /\ IsToken(f.name)
   /\ \A i \in 1..Len(f.ows) : f.ows[i] \in {SP, HT}
   /\ \A i \in 1..Len(f.value) : IsFieldValueCharacter(f.value[i])
   /\ f.value = <<>> \/ f.value[1] \notin {SP, HT}
   /\ f.eol = CRLF

WellFormed(r) ==
   /\ IsToken(r.method)
   /\ WellFormedTarget(r.target)
   /\ WellFormedVersion(r.version)
   /\ r.eol = CRLF
   /\ \A i \in 1..Len(r.fields) : WellFormedField(r.fields[i])
   /\ r.term = CRLF

\* The part of a request-target before its "?".
PathOf(t) == SubSeq(t, 1, Find(t, QUESTION) - 1)

\* The errors HandleRequest returns; every other error is a parsing stage's.
HandleRequestErrors ==
   { "TOO_MANY_REQUESTS_PER_THIS_CONNECTION", "FILE_NOT_FOUND",
     "CHECK_FILE_LOCATION_VERIFICATION_FAILURE",
     "CHECK_FILE_LOCATION_OUTSIDE_ROOT_DIRECTORY",
     "FAILED_WRITE_RESPONSE_METADATA", "FAILED_WRITE_RESPONSE_BODY" }

(* ------------------------------------------------------------------ *)
(* The claims                                                          *)
(* ------------------------------------------------------------------ *)

\* C1: for every well-formed request that has arrived whole, no parsing stage
\* returns an error, and HandleRequest is reached with the method sent and
\* with the part of the request-target before its "?" as the path.
C1_WellFormedRequestIsParsed ==
   (Complete /\ WellFormed(sent.request)) =>
      /\ pc = "RecoverError" => error \in HandleRequestErrors
      /\ pc = "HandleRequest" =>
            /\ currentRequest.method = sent.request.method
            /\ currentRequest.path = PathOf(sent.request.target)

\* C2: when ConsumeHeaders has accepted the fields of a request, the names
\* under which they are stored are the lower-cased field-names sent, first
\* byte included.
C2_StoredNamesAreLowerCased ==
   pc = "InterpretConnectionHeaders" =>
      DOMAIN currentRequest.headers =
         { Lower(sent.request.fields[i].name) : i \in 1..Len(sent.request.fields) }

\* The request carries a Connection header, in whatever case, and each one it
\* carries has a value equal to "close" but for case.
CarriesConnectionClose(r) ==
   /\ \E i \in 1..Len(r.fields) : Lower(r.fields[i].name) = connectionHeader
   /\ \A i \in 1..Len(r.fields) :
         Lower(r.fields[i].name) = connectionHeader =>
            Lower(r.fields[i].value) = closeValue

\* C3: after the exchange of a request that carries "Connection: close" the
\* loop of Entrypoint runs no further exchange.
C3_ConnectionCloseEndsTheSession ==
   [][(pc = "LoopCondition" /\ Complete /\ CarriesConnectionClose(sent.request))
         => pc' = "Clean"]_vars

\* C4: with a limit N > 0 that does not close immediately, a request counted
\* N-th or earlier is not rejected by the quota, the one counted (N+1)-th is
\* answered 429, and the loop of Entrypoint runs no exchange after that one.
C4_QuotaAnswers429AndCloses ==
   [][(pc = "LoopCondition" /\ QuotaCounts(policy)) =>
         /\ requestCount <= policy.maxRequestsPerConnection =>
               error # "TOO_MANY_REQUESTS_PER_THIS_CONNECTION"
         /\ requestCount = policy.maxRequestsPerConnection + 1 =>
               /\ error = "TOO_MANY_REQUESTS_PER_THIS_CONNECTION"
               /\ response.attempted
               /\ response.statusLine = StatusTooManyRequests
               /\ pc' = "Clean"]_vars

\* The canonical path of the file is the root directory or below it.
InsideRoot(f) ==
   /\ f.resolvable
   /\ \/ f.realpath = rootDirectory
      \/ StringStartsWith(f.realpath, Append(rootDirectory, SLASH))

\* C5: when the resolver returned a file whose canonical path is not inside
\* the root directory, neither the 200 metadata nor the file is sent.
C5_NothingOutsideRootIsServed ==
   (file.found /\ ~InsideRoot(file)) =>
      /\ ~(response.metadataWritten /\ response.statusLine = StatusOK)
      /\ ~response.sendFile

GrammarErrors ==
   { "EMPTY_METHOD", "INCORRECT_METHOD", "INCORRECT_PATH", "INVALID_PATH_EMPTY",
     "INVALID_PATH_NOT_ABSOLUTE", "INVALID_PATH_MULTIPLE_QUESTION_MARKS",
     "INCORRECT_VERSION", "INCORRECT_CRLF", "INCORRECT_HEADER_FIELD_NAME",
     "INCORRECT_HEADER_FIELD_VALUE", "INCORRECT_HEADER_FIELD_NEWLINE",
     "UNEXPECTED_CR_IN_FIELD_NAME" }

\* C6: every grammar violation a parsing stage detects is answered with a 400
\* response and marks the session non-persistent.
C6_GrammarViolationsAnswered400 ==
   (pc = "ResetExchangeState" /\ error \in GrammarErrors) =>
      /\ response.attempted
      /\ response.statusLine = StatusBadRequest
      /\ ~persistentConnection

\* The bytes of its request that the peer has delivered to the exchange.
Delivered == SubSeq(Encode(sent.request), 1, sent.cut)

\* What the grammar of the method says of the bytes w: the first byte that is
\* no token character decides.
MethodOutcome(w) ==
   LET stops == { i \in 1..Len(w) : ~IsTokenCharacter(w[i]) }
       first == CHOOSE i \in stops : \A j \in stops : i <= j
   IN  IF stops = {} THEN "FAILED_READ_METHOD"
       ELSE IF w[first] # SP THEN "INCORRECT_METHOD"
       ELSE IF first = 1 THEN "EMPTY_METHOD"
       ELSE "NO_ERROR"

MethodGrammarErrors == { "EMPTY_METHOD", "INCORRECT_METHOD" }

\* C7: ConsumeMethod fails with EMPTY_METHOD on a space as first byte, with
\* INCORRECT_METHOD on a byte that is no token character before the space,
\* with FAILED_READ_METHOD on a failed read; for the two grammar errors a 400
\* response carrying "Connection: close" is written, and the loop of
\* Entrypoint runs no further exchange.
C7_MethodErrors ==
   /\ [](/\ pc = "ConsumePath" => MethodOutcome(Delivered) = "NO_ERROR"
         /\ pc = "RecoverError" =>
               IF MethodOutcome(Delivered) = "NO_ERROR"
               THEN error \notin MethodGrammarErrors \cup {"FAILED_READ_METHOD"}
               ELSE error = MethodOutcome(Delivered)
         /\ (error \in MethodGrammarErrors
               /\ pc \in {"ResetExchangeState", "LoopCondition", "Clean", "Done"}) =>
               /\ response.attempted
               /\ response.statusLine = StatusBadRequest
               /\ response.connection = "close")
   /\ [][(pc = "LoopCondition" /\ error \in MethodGrammarErrors) => pc' = "Clean"]_vars

\* The 400 response to "G@T" has been written and the session has ended.
C7_Witness ==
   /\ pc = "Done"
   /\ sent.request.method = Bytes(<<"G", "@", "T">>)
   /\ error = "INCORRECT_METHOD"
   /\ response.statusLine = StatusBadRequest
   /\ response.metadataWritten

\* C8: a request-target without "?" leaves the path as it is and the query
\* unset; one with a single "?" is split into the path before it and the
\* query after it; one with several fails with
\* INVALID_PATH_MULTIPLE_QUESTION_MARKS, path and query left as they were.
C8_PathDecomposition ==
   LET target == sent.request.target
       marks == Occurrences(target, QUESTION)
   IN  /\ pc = "ConsumeVersion" =>
             /\ marks <= 1
             /\ marks = 0 =>
                   /\ currentRequest.path = target
                   /\ currentRequest.query = Request.query
             /\ marks = 1 =>
                   /\ target = currentRequest.path \o <<QUESTION>> \o currentRequest.query
                   /\ Occurrences(currentRequest.path, QUESTION) = 0
       /\ (pc = "RecoverError" /\ error = "INVALID_PATH_MULTIPLE_QUESTION_MARKS") =>
             /\ marks > 1
             /\ currentRequest.path = target
             /\ currentRequest.query = Request.query

\* The decomposition of "/a?x=1?y=2" has failed.
C8_Witness ==
   /\ pc = "RecoverError"
   /\ error = "INVALID_PATH_MULTIPLE_QUESTION_MARKS"
   /\ Occurrences(currentRequest.path, QUESTION) = 2

\* The size of the body that goes with the metadata of a response: the file's
\* for the 200 of a file found, a page's otherwise.
BodySize ==
   CASE response.statusLine = StatusNotFound -> Len(NotFoundPage)
     [] response.statusLine = StatusTooManyRequests -> Len(TooManyRequestsPage)
     [] response.statusLine = StatusOK /\ file.found -> file.size
     [] response.statusLine = StatusOK /\ ~file.found -> Len(DefaultWebPage)
     [] OTHER -> response.contentLength

\* C9: the response to a HEAD request is metadata only, neither SendFile nor
\* WriteString(body) is called, and its Content-Length is the size of the
\* body a GET would have received.
C9_HeadIsMetadataOnly ==
   (pc \in {"RecoverError", "ResetExchangeState"}
      /\ currentRequest.method = HEAD /\ response.attempted) =>
      /\ response.body = ""
      /\ ~response.sendFile
      /\ response.bodyWrite = "none"
      /\ response.contentLength = BodySize

\* The metadata of a file found have been written to a HEAD request.
C9_Witness ==
   /\ pc = "ResetExchangeState"
   /\ currentRequest.method = HEAD
   /\ file.found
   /\ response.statusLine = StatusOK
   /\ response.metadataWritten
   /\ response.contentLength = 2

\* The request carries no Connection header, in whatever case.
CarriesNoConnectionHeader(r) ==
   \A i \in 1..Len(r.fields) : Lower(r.fields[i].name) # connectionHeader

\* ResetExchangeState has closed the connection for the quota.
QuotaCloses ==
   /\ policy.maxRequestsCloseImmediately
   /\ policy.maxRequestsPerConnection # 0
   /\ requestCount >= policy.maxRequestsPerConnection

\* C10: Setup is performed exactly once in a session, and after an exchange
\* that succeeded without a grammar error, without a Connection header and
\* without the quota closing, the loop of Entrypoint runs the next exchange on
\* the same connection, set up no second time.
C10_OneTransportPerSession ==
   /\ [](setupCount = IF pc = "Setup" THEN 0 ELSE 1)
   /\ [][(/\ pc = "LoopCondition"
          /\ previousRequestSuccess
          /\ error \notin GrammarErrors
          /\ CarriesNoConnectionHeader(sent.request)
          /\ ~QuotaCloses) =>
            /\ pc' = "AwaitRequest"
            /\ connection' = "open"
            /\ setupCount' = setupCount]_vars

\* A second exchange is about to begin on the connection set up once.
C10_Witness ==
   /\ pc = "AwaitRequest"
   /\ previousRequestSuccess
   /\ connection = "open"
   /\ setupCount = 1

\* The errors of a failed read or write on the connection.
TransportErrors ==
   { "FAILED_READ_GENERIC", "FAILED_READ_HEADER_FIELD_GENERIC",
     "FAILED_READ_HEADER_FIELD_NAME", "FAILED_READ_HEADER_FIELD_VALUE",
     "FAILED_READ_HEADER_NEWLINE", "FAILED_READ_METHOD", "FAILED_READ_PATH",
     "FAILED_READ_CRLF", "FAILED_READ_VERSION",
     "FAILED_WRITE_RESPONSE_BODY", "FAILED_WRITE_RESPONSE_METADATA" }

\* A read or a write of the exchange has failed: an error of the transport,
\* or a metadata block or a body whose write failed.
TransportFailure ==
   \/ error \in TransportErrors
   \/ response.attempted /\ ~response.metadataWritten
   \/ response.bodyWrite = "failed"

\* C11: after a failed read or write (a FAILED_READ_* or FAILED_WRITE_* error,
\* or a failed write of a generated response) nothing more is written to the
\* connection: no body follows a metadata block whose write failed, and no
\* later step writes; the loop of Entrypoint runs no further exchange and
\* goes to Clean, which releases the connection and reports the death once.
C11_TransportFailureEndsTheSession ==
   /\ []((response.attempted /\ ~response.metadataWritten) =>
            /\ response.bodyWrite = "none"
            /\ ~response.sendFile)
   /\ [][(TransportFailure
            /\ pc \in {"RecoverError", "ResetExchangeState", "LoopCondition", "Clean"}) =>
            /\ response' = response
            /\ pc' # "AwaitRequest"
            /\ pc = "LoopCondition" => pc' = "Clean"
            /\ pc = "Clean" =>
                  /\ connection' = "released"
                  /\ deathReports' = deathReports + 1
                  /\ pc' = "Done"]_vars

\* The peer stopped in the middle of a header field, nothing was written and
\* the session has ended with its death reported.
C11_Witness ==
   /\ pc = "Done"
   /\ error = "FAILED_READ_HEADER_FIELD_VALUE"
   /\ response = NoResponse
   /\ connection = "released"
   /\ deathReports = 1

CheckFileLocationErrors ==
   { "CHECK_FILE_LOCATION_VERIFICATION_FAILURE",
     "CHECK_FILE_LOCATION_OUTSIDE_ROOT_DIRECTORY" }

\* Every write the exchange attempted succeeded.
WritesSucceeded ==
   response.attempted /\ response.metadataWritten /\ response.bodyWrite # "failed"

\* C12: when CheckFileLocation fails on the file the resolver returned
\* (realpath fails, or the canonical path is outside the root directory), the
\* exchange answers 404, and with the 404 written it succeeds and leaves the
\* connection persistent for the next exchange.
C12_LocationErrorsAnswered404 ==
   (pc = "ResetExchangeState" /\ error \in CheckFileLocationErrors) =>
      /\ response.attempted
      /\ response.statusLine = StatusNotFound
      /\ (WritesSucceeded /\ CarriesNoConnectionHeader(sent.request)) =>
            /\ previousRequestSuccess
            /\ persistentConnection

\* The paths for which the default page stands in for a missing file.
IndexPaths ==
   { <<SLASH>>, Bytes(<<"/", "i", "n", "d", "e", "x", ".", "h", "t", "m", "l">>) }

\* C13: on FILE_NOT_FOUND the default page is served with 200 exactly when the
\* requested path is "/" or "/index.html"; for every other path the 404 page
\* is served and the miss reported; in both cases a successful write leaves
\* the exchange successful and the connection persistent.
C13_DefaultPageForIndexOnly ==
   (pc = "ResetExchangeState" /\ error = "FILE_NOT_FOUND") =>
      /\ response.attempted
      /\ currentRequest.path \in IndexPaths =>
            /\ response.statusLine = StatusOK
            /\ response.contentLength = Len(DefaultWebPage)
            /\ ~reported
      /\ currentRequest.path \notin IndexPaths =>
            /\ response.statusLine = StatusNotFound
            /\ response.contentLength = Len(NotFoundPage)
            /\ reported
      /\ (WritesSucceeded /\ CarriesNoConnectionHeader(sent.request)) =>
            /\ previousRequestSuccess
            /\ persistentConnection

\* What the grammar of the version says of the bytes w that are left to read:
\* the first of the eight bytes that differs from "HTTP/1." and a digit makes
\* the version incorrect; with none differing and fewer than eight bytes the
\* stream has ended early, which is the error early.
VersionOutcome(w, early) ==
   LET literal == Bytes(<<"H", "T", "T", "P", "/", "1", ".">>)
       n == IF Len(w) < 8 THEN Len(w) ELSE 8
       mismatches == { i \in 1..n : IF i = 8 THEN ~IsNumericCharacter(w[i])
                                             ELSE w[i] # literal[i] }
   IN  IF mismatches # {} THEN "INCORRECT_VERSION"
       ELSE IF n < 8 THEN early
       ELSE "NO_ERROR"

\* ConsumeVersion goes on to ConsumeCRLF with the eight bytes read exactly when
\* the grammar accepts them, and fails with the error of the grammar otherwise.
VersionStep(early) ==
   pc = "ConsumeVersion" =>
      LET outcome == VersionOutcome(wire, early)
      IN  IF outcome = "NO_ERROR"
          THEN /\ pc' = "ConsumeCRLF"
               /\ error' = "NO_ERROR"
               /\ wire' = SubSeq(wire, 9, Len(wire))
          ELSE /\ pc' = "RecoverError"
               /\ error' = outcome

\* C14 as stated: ConsumeVersion accepts exactly the eight bytes "HTTP/1."
\* and one decimal digit, and every mismatch, a failed read within the eight
\* bytes included, fails with INCORRECT_VERSION.
C14_FailedReadIsIncorrectVersion == [][VersionStep("INCORRECT_VERSION")]_vars

\* C14 amended: ConsumeVersion accepts exactly the eight bytes "HTTP/1." and
\* one decimal digit; a byte that differs fails with INCORRECT_VERSION, and a
\* failed read within the eight bytes, before any byte differed, fails with
\* FAILED_READ_VERSION.
C14_VersionOutcomes == [][VersionStep("FAILED_READ_VERSION")]_vars

\* The peer stopped within the version and ConsumeVersion has failed to read.
C14_Witness ==
   /\ pc = "RecoverError"
   /\ error = "FAILED_READ_VERSION"
   /\ wire = <<>>
   /\ sent.cut < Len(Encode(sent.request))

\* A field-value without the spaces and tabs at its end.
RECURSIVE TrimTrailingOWS(_)
TrimTrailingOWS(value) ==
   IF value # <<>> /\ value[Len(value)] \in {SP, HT}
   THEN TrimTrailingOWS(SubSeq(value, 1, Len(value) - 1))
   ELSE value

\* The fields of the request sent whose name is k but for case.
FieldsNamed(k) ==
   { i \in 1..Len(sent.request.fields) : Lower(sent.request.fields[i].name) = Lower(k) }

\* C15: when ConsumeHeaders has accepted the fields of a request, every value
\* stored is the field-value received of a field of that name with only the
\* spaces and tabs at its end removed: spaces and tabs inside it and every
\* other byte are kept.
C15_StoredValueIsTrimmedAtItsEndOnly ==
   pc = "InterpretConnectionHeaders" =>
      \A k \in DOMAIN currentRequest.headers :
         \E i \in FieldsNamed(k) :
            currentRequest.headers[k] = TrimTrailingOWS(sent.request.fields[i].value)

\* C16: when a request carries a field-name twice, the value stored under
\* that name after ConsumeHeaders is the value of its last occurrence.
C16_LastDuplicateIsStored ==
   pc = "InterpretConnectionHeaders" =>
      \A k \in DOMAIN currentRequest.headers :
         LET last == CHOOSE i \in FieldsNamed(k) : \A j \in FieldsNamed(k) : j <= i
         IN  Cardinality(FieldsNamed(k)) > 1 =>
                currentRequest.headers[k] = TrimTrailingOWS(sent.request.fields[last].value)

\* The steps of a message exchange, from its first read to ResetExchangeState.
InExchange ==
   { "ConsumeMethod", "ConsumePath", "ValidateCurrentRequestPath",
     "ExtractComponentsFromPath", "ConsumeVersion", "ConsumeCRLF", "ConsumeHeaders",
     "InterpretConnectionHeaders", "HandleRequest", "RecoverError",
     "ResetExchangeState" }

\* The policy closes immediately at a limit N > 0.
ClosesImmediately ==
   policy.maxRequestsCloseImmediately /\ policy.maxRequestsPerConnection > 0

\* C18: in close-immediately mode with a limit N > 0 the quota is counted and
\* tested in ResetExchangeState only, one for each exchange and after the
\* exchange has written its response: HandleRequest neither counts nor
\* closes, every response is attempted in HandleRequest or RecoverError with
\* the quota not yet having closed the connection, a request handled or found
\* missing has its response attempted by then, no exchange begins once N are
\* counted, the loop of Entrypoint ends after the N-th, and no exchange fails
\* with TOO_MANY_REQUESTS_PER_THIS_CONNECTION.
C18_CloseImmediatelyCountsAfterTheResponse ==
   /\ [](ClosesImmediately =>
            /\ error # "TOO_MANY_REQUESTS_PER_THIS_CONNECTION"
            /\ requestCount <= policy.maxRequestsPerConnection
            /\ pc \in InExchange => requestCount < policy.maxRequestsPerConnection)
   /\ [][ClosesImmediately =>
            /\ requestCount' # requestCount => pc = "ResetExchangeState"
            /\ (response'.attempted /\ response' # response) =>
                  /\ pc \in {"HandleRequest", "RecoverError"}
                  /\ requestCount' < policy.maxRequestsPerConnection
            /\ pc = "HandleRequest" => persistentConnection' = persistentConnection
            /\ pc = "ResetExchangeState" =>
                  /\ requestCount' = requestCount + 1
                  /\ response' = response
                  /\ error \in {"NO_ERROR", "FILE_NOT_FOUND"} => response.attempted
            /\ (pc = "LoopCondition"
                  /\ requestCount >= policy.maxRequestsPerConnection) => pc' = "Clean"]_vars

\* The second of two exchanges allowed was served whole, and the quota alone
\* has ended the loop.
C18_Witness ==
   /\ pc = "Clean"
   /\ ClosesImmediately
   /\ policy.maxRequestsPerConnection = 2
   /\ requestCount = 2
   /\ error = "NO_ERROR"
   /\ previousRequestSuccess
   /\ response.metadataWritten
   /\ response.sendFile
   /\ response.connection = "keep-alive"

\* C19: an exchange that fails the quota test of HandleRequest (the limit is
\* not zero, the policy does not close immediately, the counter incremented
\* exceeds the limit) does not ask the file resolver and sends neither the
\* metadata nor the body of a file; with a limit of zero the quota rejects no
\* request, counts none and closes no connection, in either mode.
C19_QuotaFailureResolvesNothing ==
   /\ [](/\ error = "TOO_MANY_REQUESTS_PER_THIS_CONNECTION" =>
               /\ file = NoFile
               /\ ~response.sendFile
               /\ response.statusLine # StatusOK
         /\ policy.maxRequestsPerConnection = 0 =>
               /\ error # "TOO_MANY_REQUESTS_PER_THIS_CONNECTION"
               /\ requestCount = 0)
   /\ [][/\ (/\ pc = "HandleRequest"
              /\ ~policy.maxRequestsCloseImmediately
              /\ policy.maxRequestsPerConnection # 0
              /\ requestCount + 1 > policy.maxRequestsPerConnection) =>
               /\ error' = "TOO_MANY_REQUESTS_PER_THIS_CONNECTION"
               /\ requestCount' = requestCount + 1
               /\ file' = NoFile
               /\ response' = NoResponse
         /\ (policy.maxRequestsPerConnection = 0
                /\ pc \in {"HandleRequest", "ResetExchangeState"}) =>
               persistentConnection' = persistentConnection]_vars

\* The second request under a limit of one has failed the quota test, the
\* resolver not asked.
C19_Witness ==
   /\ pc = "RecoverError"
   /\ error = "TOO_MANY_REQUESTS_PER_THIS_CONNECTION"
   /\ ~policy.maxRequestsCloseImmediately
   /\ policy.maxRequestsPerConnection = 1
   /\ requestCount = 2
   /\ file = NoFile
   /\ response = NoResponse

\* C20: persistentConnection starts true, changes only where
\* MarkConnectionClosing is called (InterpretConnectionHeaders,
\* RecoverErrorBadRequest, ResetExchangeState) and only to false, and once
\* false is never true again; requestCount starts at zero and never
\* decreases, between exchanges as within them.
C20_FlagAndCounterAreMonotone ==
   /\ [](pc = "Setup" => persistentConnection /\ requestCount = 0)
   /\ [][/\ ~persistentConnection => ~persistentConnection'
         /\ persistentConnection' # persistentConnection =>
               pc \in {"InterpretConnectionHeaders", "RecoverError", "ResetExchangeState"}
         /\ requestCount' >= requestCount]_vars

\* Two exchanges have been counted, and the second, a malformed request, has
\* left the flag false past ResetExchangeState.
C20_Witness ==
   /\ pc = "LoopCondition"
   /\ requestCount = 2
   /\ error \in GrammarErrors
   /\ ~persistentConnection

\* The session is running its Entrypoint: accepted and not yet past Clean.
RunningEntrypoint == pc \notin {"NotAccepted", "Done"}

C21_CleanExactlyOnce ==
   /\ [](/\ deathReports = IF pc = "Done" THEN 1 ELSE 0
         /\ pc = "Done" => connection = "released" /\ registry = {}
         /\ pc \in InExchange \cup {"AwaitRequest", "LoopCondition"} => connection = "open"
         /\ (pc = "Clean" /\ connection = "new") =>
               /\ sent = NoRequest
               /\ response = NoResponse
               /\ currentRequest = Request
               /\ requestCount = 0)
   /\ [][/\ pc # "Done"
         /\ (pc = "Setup" /\ connection' # "open") =>
               pc' = "Clean" /\ connection' = "new"
         /\ pc = "Clean" =>
               /\ connection' = "released"
               /\ deathReports' = deathReports + 1
               /\ registry' = registry \ {thread}
               /\ wire' = wire
               /\ response' = response
               /\ pc' = "Done"]_vars

\* Setup failed, and the session has ended with its one call of Clean, no
\* exchange run.
C21_Witness ==
   /\ pc = "Done"
   /\ setupCount = 1
   /\ sent = NoRequest
   /\ response = NoResponse
   /\ connection = "released"
   /\ deathReports = 1

\* Every byte of the name is one a field-name may hold: a tchar of RFC 7230,
\* the digits and the letters, which ConsumeHeaderFieldName tests for.
IsFieldName(name) == \A i \in 1..Len(name) : IsFieldNameCharacter(name[i])

\* C22: every byte of a field-name is validated, the first byte of the field
\* included: ConsumeHeaders accepts the fields of a request only when every
\* byte of every field-name sent is a tchar, a digit or a letter, and no
\* name stored holds any other byte.
C22_EveryFieldNameByteIsValidated ==
   pc = "InterpretConnectionHeaders" =>
      /\ \A i \in 1..Len(sent.request.fields) : IsFieldName(sent.request.fields[i].name)
      /\ \A k \in DOMAIN currentRequest.headers : IsFieldName(k)

\* The exchange has produced a response and its request is not yet reset.
ResponseProduced ==
   pc \in {"RecoverError", "ResetExchangeState"} /\ response.attempted

AbsolutePath == currentRequest.path # <<>> /\ currentRequest.path[1] = SLASH

\* The errors found before the path has been read and validated.
MethodAndTargetErrors ==
   { "EMPTY_METHOD", "INCORRECT_METHOD", "INCORRECT_PATH", "INVALID_PATH_EMPTY",
     "INVALID_PATH_NOT_ABSOLUTE" }

\* C23 as stated: whenever the session produces a response, 200, 400, 404,
\* 429 or the default page, currentRequest.path is not empty and begins
\* with "/".
C23_PathIsAbsoluteAtEveryResponse == ResponseProduced => AbsolutePath

\* C23 amended: whenever the session produces a response other than the 400
\* to an error of the method or of the request-target, currentRequest.path is
\* not empty and begins with "/".
C23_PathIsAbsoluteAtResponsesPastTheTarget ==
   (ResponseProduced /\ error \notin MethodAndTargetErrors) => AbsolutePath

\* The 404 page has been written for the path "/a".
C23_Witness ==
   /\ pc = "ResetExchangeState"
   /\ response.statusLine = StatusNotFound
   /\ response.metadataWritten
   /\ currentRequest.path = Bytes(<<"/", "a">>)

\* The stages of an exchange that read from the connection.
ReadingStages ==
   { "ConsumeMethod", "ConsumePath", "ConsumeVersion", "ConsumeCRLF", "ConsumeHeaders" }

\* C24: the exchanges of a connection follow one another and share nothing:
\* a byte is read only by a parsing stage of an exchange that has written
\* nothing yet, a write reads nothing, so that no byte of the next request is
\* read before the response to this one is written; and ResetExchangeState
\* leaves currentRequest empty after an exchange that succeeded as after one
\* that failed, so that every exchange starts with an empty currentRequest.
C24_ExchangesAreSerializedAndIsolated ==
   /\ [](pc \in {"LoopCondition", "AwaitRequest", "ConsumeMethod"} =>
            currentRequest = Request)
   /\ [][/\ Len(wire') < Len(wire) =>
               /\ pc \in ReadingStages
               /\ ~response.attempted
               /\ response' = response
         /\ (response'.attempted /\ response' # response) =>
               /\ pc \in {"HandleRequest", "RecoverError"}
               /\ wire' = wire
         /\ pc = "ResetExchangeState" => currentRequest' = Request]_vars

\* A second exchange on the connection has its request to read, with
\* currentRequest empty.
C24_Witness ==
   /\ pc = "ConsumeMethod"
   /\ previousRequestSuccess
   /\ wire # <<>>
   /\ currentRequest = Request
   /\ ~response.attempted

\* C25: the Connection header of a response whose writes succeeded says what
\* the session does next: after "close" the loop of Entrypoint runs no
\* further exchange, and after "keep-alive" it goes on to the next exchange on
\* the same connection.
C25_ConnectionHeaderIsKept ==
   [][(pc = "LoopCondition" /\ WritesSucceeded) =>
         /\ response.connection = "close" => pc' = "Clean"
         /\ response.connection = "keep-alive" =>
               pc' = "AwaitRequest" /\ connection' = "open"]_vars

====
